---- MODULE Spec2Model ----
(***************************************************************************)
(* ESTOP Function Record System: the Credential Store (app/utils/auth.py), *)
(* the Flask request handlers (app/__init__.py) and the Test Registry      *)
(* (app/models/database.py) as one state machine.                          *)
(*                                                                         *)
(* Strings that the code only compares or stores (usernames, passwords,    *)
(* roles, messages) are TLA+ strings.  Strings that the code hands to SQL  *)
(* LIKE (machine and device names, the search text) are sequences of       *)
(* one-character strings, so that pattern matching is computed.            *)
(* A user entry carries first_name, password, role and privileges; the     *)
(* fields last_name, email and created_at are stored by add_user and read  *)
(* by no handler, and are left out.                                        *)
(***************************************************************************)
EXTENDS Integers, Sequences, FiniteSets, TLC

VARIABLES users, file, session, machines, devices, tests, nextId, now, last,
          inflight, reports

vars == <<users, file, session, machines, devices, tests, nextId, now, last,
         inflight, reports>>

\* The tables of the storage backend and its clock.
dbvars == <<machines, devices, tests, nextId, now>>

\* Browser sessions (Flask keeps one signed cookie per client).
Clients == {"c1", "c2"}

\* ------------------------------------------------------------------------
\* Credential Store

\* str.strip() on the usernames the model submits.
Strip(s) == IF s = " mhiggins " THEN "mhiggins" ELSE s

\* str.capitalize() on the first names the model submits.
Capitalize(s) == IF s \in {"ann", "ANN"} THEN "Ann" ELSE s

\* The users.json document as first read: two accounts, one of them an admin.
SeedUsers ==
    [u \in {"ckull", "mhiggins"} |->
        IF u = "ckull"
        THEN [first_name |-> "Chris", password |-> "mera7", role |-> "admin",
              privileges |-> <<"admin">>]
        ELSE [first_name |-> "Mike", password |-> "pw2", role |-> "user",
              privileges |-> <<"user">>]]

NoUsers == [u \in {} |-> 0]

\* A document that cannot be read or parsed (truncated by a failed write).
Unreadable == [readable |-> FALSE, doc |-> NoUsers]

Document(d) == [readable |-> TRUE, doc |-> d]

\* AuthManager.load_users: the parsed document, or {} on any failure.
load_users(f) == IF f.readable THEN f.doc ELSE NoUsers

authenticateAnyPassword(reg, username, password) == username \in DOMAIN reg

\* AuthManager.authenticate
authenticate(reg, username, password) ==
    IF username \in DOMAIN reg
    THEN IF reg[username].password = password THEN TRUE ELSE FALSE
    ELSE FALSE

\* AuthManager.get_user_privileges
get_user_privileges(reg, username) ==
    IF username \in DOMAIN reg THEN reg[username].privileges ELSE <<>>

\* 'admin' in user_privileges
HasPriv(privs, p) == \E i \in 1..Len(privs) : privs[i] = p

UsernameTakenNever(reg, username) == FALSE

\* add_user: if username in auth_manager.users
UsernameTaken(reg, username) == username \in DOMAIN reg

\* ------------------------------------------------------------------------
\* Test Registry (storage backend)

\* Most test records the model stores, and the last clock tick it reaches.
MaxTests == 2
MaxClock == 2

\* Clock ticks per calendar day: DATEDIFF(day, a, b) counts the day
\* boundaries between a and b.
TicksPerDay == 2

DayOf(t) == t \div TicksPerDay

DATEDIFF_day(from, to) == DayOf(to) - DayOf(from)

\* Machine and device names, shortened: "Ma" is Machine A, "Mb" Machine B,
\* "E1" Emergency Stop Button 1, "E" Emergency Stop Button, "Sm" Safety Mat.
Ma == <<"M", "a">>
Mb == <<"M", "b">>
E1 == <<"E", "1">>
Eb == <<"E">>
Sm == <<"S", "m">>

\* insert_sample_data: the machines and devices lists.
SampleMachines ==
    << [machine_name |-> Ma, location |-> "Production Floor"],
       [machine_name |-> Mb, location |-> "Assembly Line 1"] >>

SampleDevices ==
    << [machine_name |-> Ma, device_name |-> E1, device_type |-> "E-Stop"],
       [machine_name |-> Mb, device_name |-> Eb, device_type |-> "E-Stop"],
       [machine_name |-> Mb, device_name |-> Sm, device_type |-> "Pressure Mat"] >>

\* IDENTITY(1,1) of a table that is only inserted into.
NextMachineId(ms) == Cardinality(ms) + 1
NextDeviceId(ds) == Cardinality(ds) + 1

MachineExistsNever(ms, name) == FALSE

\* IF NOT EXISTS (SELECT 1 FROM machines WHERE machine_name = %s)
MachineExists(ms, name) == \E x \in ms : x.machine_name = name

\* IF NOT EXISTS (SELECT 1 FROM safety_devices WHERE device_name = %s AND
\* machine_id = %s)
DeviceExists(ds, name, mid) ==
    \E y \in ds : y.device_name = name /\ y.machine_id = mid

RECURSIVE InsertMachinesTo(_, _, _)
\* for machine in machines: IF NOT EXISTS (...) INSERT ..., the statements
\* for the machines i..n of the list.
InsertMachinesTo(ms, i, n) ==
    IF i > n THEN ms
    ELSE LET m == SampleMachines[i]
             ms2 == IF MachineExists(ms, m.machine_name)
                    THEN ms
                    ELSE ms \cup {[machine_id |-> NextMachineId(ms),
                                   machine_name |-> m.machine_name,
                                   location |-> m.location]}
         IN InsertMachinesTo(ms2, i + 1, n)

\* The whole loop over the machines list.
InsertMachines(ms, i) == InsertMachinesTo(ms, i, Len(SampleMachines))

RECURSIVE InsertDevicesTo(_, _, _, _)
\* for device in devices: if machine_name in machine_ids: IF NOT EXISTS ...,
\* the statements for the devices i..n of the list.  machine_ids maps each
\* machine name to its id; machine names are unique in every state the model
\* starts from, so that known has at most one element.
InsertDevicesTo(ms, ds, i, n) ==
    IF i > n THEN ds
    ELSE LET d == SampleDevices[i]
             known == {x \in ms : x.machine_name = d.machine_name}
             mid == (CHOOSE x \in known : TRUE).machine_id
             ds2 == IF known = {} THEN ds
                    ELSE IF DeviceExists(ds, d.device_name, mid)
                    THEN ds
                    ELSE ds \cup {[device_id |-> NextDeviceId(ds),
                                   machine_id |-> mid,
                                   device_name |-> d.device_name,
                                   device_type |-> d.device_type]}
         IN InsertDevicesTo(ms, ds2, i + 1, n)

\* The whole loop over the devices list.
InsertDevices(ms, ds, i) == InsertDevicesTo(ms, ds, i, Len(SampleDevices))

\* The outcomes of one call into the storage backend.
DbOutcomes == {"ok", "connect_fails", "query_fails"}

\* ESTOPDatabase.get_connection re-raises the connection error; every method
\* calls it before its try block.
get_connection_raises(db) == db = "connect_fails"

\* LIKE: % matches any run of characters, _ any one character.
RECURSIVE Like(_, _)
Like(str, pat) ==
    IF pat = <<>> THEN str = <<>>
    ELSE IF Head(pat) = "%"
    THEN Like(str, Tail(pat)) \/ (str # <<>> /\ Like(Tail(str), pat))
    ELSE /\ str # <<>>
         /\ (Head(pat) = "_" \/ Head(pat) = Head(str))
         /\ Like(Tail(str), Tail(pat))

\* search_param = f"%{search_query}%"
search_param(search_query) == <<"%">> \o search_query \o <<"%">>

\* FROM test_records tr JOIN machines m ... JOIN safety_devices sd ...
JoinedRows ==
    {[record_id |-> t.record_id, machine_name |-> m.machine_name,
      device_name |-> d.device_name, username |-> t.username,
      test_result |-> t.test_result, test_date |-> t.test_date,
      days_since_test |-> DATEDIFF_day(t.test_date, now)] :
       <<t, m, d>> \in {x \in tests \X machines \X devices :
                          /\ x[1].machine_id = x[2].machine_id
                          /\ x[1].device_id = x[3].device_id}}

SearchOrFilters(r, search_query, machine_filter, user_filter) ==
    \/ search_query # <<>> /\ \/ Like(r.device_name, search_param(search_query))
                              \/ Like(r.machine_name, search_param(search_query))
    \/ machine_filter # <<>> /\ r.machine_name = machine_filter
    \/ user_filter # "" /\ r.username = user_filter

\* AND (sd.device_name LIKE %s OR m.machine_name LIKE %s)
SearchCondition(r, search_query) ==
    \/ Like(r.device_name, search_param(search_query))
    \/ Like(r.machine_name, search_param(search_query))

\* WHERE 1=1 and the conditions appended for the non-empty arguments.
WhereClause(r, search_query, machine_filter, user_filter) ==
    /\ search_query # <<>> => SearchCondition(r, search_query)
    /\ machine_filter # <<>> => r.machine_name = machine_filter
    /\ user_filter # "" => r.username = user_filter

\* ORDER BY tr.test_date DESC: every sequence of the rows with non-increasing
\* test_date; rows of equal test_date come in an order the backend chooses.
Orderings(rows) ==
    {s \in [1..Cardinality(rows) -> rows] :
        /\ \A i, j \in DOMAIN s : i # j => s[i] # s[j]
        /\ \A i, j \in DOMAIN s : i < j => s[i].test_date >= s[j].test_date}

\* ESTOPDatabase.get_device_tests: the sequences it may return when it
\* returns; [] when the query fails.
get_device_tests(search_query, machine_filter, user_filter, db) ==
    IF db = "query_fails" THEN {<<>>}
    ELSE Orderings({r \in JoinedRows :
                      WhereClause(r, search_query, machine_filter, user_filter)})

\* a < b for two names: the first differing character decides, a proper
\* prefix comes first.
NameLess(a, b) ==
    LET Ord == [ch \in {"%", "1", "E", "M", "S", "_", "a", "b", "m"} |->
                  CASE ch = "%" -> 37 [] ch = "1" -> 49 [] ch = "E" -> 69
                    [] ch = "M" -> 77 [] ch = "S" -> 83 [] ch = "_" -> 95
                    [] ch = "a" -> 97 [] ch = "b" -> 98 [] OTHER -> 109]
        n == IF Len(a) < Len(b) THEN Len(a) ELSE Len(b)
        diff == {i \in 1..n : a[i] # b[i]}
        first == CHOOSE i \in diff : \A j \in diff : i <= j
    IN IF diff = {} THEN Len(a) < Len(b) ELSE Ord[a[first]] < Ord[b[first]]

\* ESTOPDatabase.get_machines: ORDER BY machine_name
get_machines(db) ==
    IF db = "query_fails" THEN {<<>>}
    ELSE {s \in [1..Cardinality(machines) -> machines] :
            /\ \A i, j \in DOMAIN s : i # j => s[i] # s[j]
            /\ \A i, j \in DOMAIN s :
                 i < j => ~NameLess(s[j].machine_name, s[i].machine_name)}

get_safety_devices_of_any_machine(machine_id, db) ==
    IF db = "query_fails" THEN {<<>>}
    ELSE LET rows == {[device_id |-> d.device_id, device_name |-> d.device_name,
                       device_type |-> d.device_type] : d \in devices}
         IN {s \in [1..Cardinality(rows) -> rows] :
               /\ \A i, j \in DOMAIN s : i # j => s[i] # s[j]
               /\ \A i, j \in DOMAIN s :
                    i < j => ~NameLess(s[j].device_name, s[i].device_name)}

\* ESTOPDatabase.get_safety_devices: WHERE machine_id = %s ORDER BY device_name
get_safety_devices(machine_id, db) ==
    IF db = "query_fails" THEN {<<>>}
    ELSE LET rows == {[device_id |-> d.device_id, device_name |-> d.device_name,
                       device_type |-> d.device_type] :
                        d \in {x \in devices : x.machine_id = machine_id}}
         IN {s \in [1..Cardinality(rows) -> rows] :
               /\ \A i, j \in DOMAIN s : i # j => s[i] # s[j]
               /\ \A i, j \in DOMAIN s :
                    i < j => ~NameLess(s[j].device_name, s[i].device_name)}

ForeignKeysNotEnforced(machine_id, device_id) == TRUE

\* The foreign keys of test_records (create_tables).
ForeignKeysHold(machine_id, device_id) ==
    /\ \E m \in machines : m.machine_id = machine_id
    /\ \E d \in devices : d.device_id = device_id

\* ESTOPDatabase.record_test: what it returns ("raise" when get_connection
\* raises, FALSE when the INSERT fails).
record_test_result(machine_id, device_id, db) ==
    IF db = "connect_fails" THEN "raise"
    ELSE IF db = "query_fails" THEN "false"
    ELSE IF ForeignKeysHold(machine_id, device_id) THEN "true" ELSE "false"

record_test_replaces(machine_id, device_id, username, test_result, notes, db) ==
    IF record_test_result(machine_id, device_id, db) = "true"
    THEN {[record_id |-> nextId, machine_id |-> machine_id,
           device_id |-> device_id, username |-> username,
           test_result |-> test_result, test_date |-> now, notes |-> notes]}
    ELSE tests

\* The test_records table after record_test: the INSERT adds one row with
\* the next identity value and test_date = GETDATE().
record_test_rows(machine_id, device_id, username, test_result, notes, db) ==
    IF record_test_result(machine_id, device_id, db) = "true"
    THEN tests \cup {[record_id |-> nextId, machine_id |-> machine_id,
                      device_id |-> device_id, username |-> username,
                      test_result |-> test_result, test_date |-> now,
                      notes |-> notes]}
    ELSE tests

\* ------------------------------------------------------------------------
\* Sessions and responses

NoSession == [active |-> FALSE, username |-> "", privileges |-> <<>>]

LoggedInAlways(c) == TRUE

\* 'username' in session
LoggedIn(c) == session[c].active

\* 'admin' in session.get('privileges', [])
IsAdmin(c) == HasPriv(session[c].privileges, "admin")

IsSelfNever(c, username) == FALSE

\* delete_user: if username == session['username']
IsSelf(c, username) == username = session[c].username

\* What the last request was and how it was answered.
Response(route, c, status, message, target, extra) ==
    [route |-> route, client |-> c, status |-> status, message |-> message,
     hadSession |-> session[c].active, actor |-> session[c].username,
     target |-> target, password |-> extra.password, auth |-> extra.auth,
     success |-> extra.success, db |-> extra.db, id |-> extra.id,
     query |-> extra.query, body |-> extra.body, storage |-> extra.storage,
     rows |-> extra.rows, raised |-> extra.raised, args |-> extra.args]

NoQuery == [search |-> <<>>, machine |-> <<>>, user |-> "", sort |-> ""]

\* The arguments of record_test, when the request or call has none.
NoArgs == [machine_id |-> 0, device_id |-> 0, username |-> "",
           test_result |-> "", notes |-> ""]

\* storage: how the first storage call of the request went ("" without one);
\* rows: what get_device_tests returned, before history sorts it; raised: an
\* exception left the method (or, for a request, the handler).
Plain == [password |-> "", auth |-> FALSE, success |-> FALSE, db |-> {},
          id |-> 0, query |-> NoQuery, body |-> <<>>, storage |-> "",
          rows |-> <<>>, raised |-> FALSE, args |-> NoArgs]

\* A call of a Test Registry method from outside a request.
MethodCall(method, extra) ==
    [route |-> method, client |-> "", status |-> 0, message |-> "",
     hadSession |-> FALSE, actor |-> "", target |-> "",
     password |-> "", auth |-> FALSE,
     success |-> extra.success, db |-> extra.db, id |-> extra.id,
     query |-> extra.query, body |-> extra.body, storage |-> extra.storage,
     rows |-> extra.rows, raised |-> extra.raised, args |-> extra.args]

\* The mock reports system as create_app leaves it: the list _mock_reports
\* and the counter _report_id_counter are variables of create_app (lines
\* 293-294); the module has no global named _report_id_counter, which is
\* the name save_report declares global.
NoReports == [mock_reports |-> <<>>, local_counter |-> 1,
              global_counter |-> [bound |-> FALSE, value |-> 0]]

\* A request thread of add_user or delete_user: where it stands (pc), what
\* it was asked, and the text json.dump has put into its file buffer.
NoForm == [first_name |-> "", username |-> "", password |-> "", role |-> ""]

Idle == [pc |-> "idle", op |-> "", form |-> NoForm, content |-> NoUsers,
         message |-> ""]

\* threads: the request each client has in flight; empty: users.json was
\* truncated by open(.., 'w') and nothing has been written to it since;
\* writer: the client whose buffer was written out last.
NoneInFlight == [threads |-> [c \in Clients |-> Idle], empty |-> FALSE,
                 writer |-> ""]

Init ==
    /\ file \in {Document(SeedUsers), Unreadable}
    /\ users = load_users(file)
    /\ session = [c \in Clients |-> NoSession]
    /\ machines = InsertMachines({}, 1)
    /\ devices = InsertDevices(machines, {}, 1)
    /\ tests = {}
    /\ nextId = 1
    /\ now = 0
    /\ last = MethodCall("create_app", Plain)
    /\ inflight = NoneInFlight
    /\ reports = NoReports

LoginKeepsPrivileges(c, username, password) ==
    LET ok == authenticate(users, username, password) IN
    /\ session' = IF ok
                  THEN [session EXCEPT ![c].active = TRUE,
                                       ![c].username = username]
                  ELSE session
    /\ last' = Response("login", c, IF ok THEN 302 ELSE 200,
                        IF ok THEN "" ELSE "Invalid username or password",
                        username,
                        [Plain EXCEPT !.password = password, !.auth = ok])
    /\ UNCHANGED <<users, file, dbvars, inflight, reports>>

\* POST /login
Login(c, username, password) ==
    LET ok == authenticate(users, username, password) IN
    /\ IF ok
       THEN /\ session' = [session EXCEPT ![c] =
                              [active |-> TRUE, username |-> username,
                               privileges |-> get_user_privileges(users, username)]]
            /\ last' = Response("login", c, 302, "", username,
                                [Plain EXCEPT !.password = password, !.auth = ok])
       ELSE /\ session' = session
            /\ last' = Response("login", c, 200, "Invalid username or password",
                                username,
                                [Plain EXCEPT !.password = password, !.auth = ok])
    /\ UNCHANGED <<users, file, dbvars, inflight, reports>>

\* GET /login
LoginForm(c) ==
    /\ last' = Response("login_form", c, 200, "", "", Plain)
    /\ UNCHANGED <<users, file, session, dbvars, inflight, reports>>

\* GET /logout
Logout(c) ==
    /\ session' = [session EXCEPT ![c] = NoSession]
    /\ last' = Response("logout", c, 302, "You have been logged out", "", Plain)
    /\ UNCHANGED <<users, file, dbvars, inflight, reports>>

PersistNeverFails(reg, io) == Document(reg)

\* with open(users_file, 'w') as f: json.dump(auth_manager.users, f): the
\* document after the attempt.  open() may fail (document untouched); once it
\* succeeded the file is truncated, and a failing dump leaves it unparsable.
Persist(reg, io) ==
    CASE io = "ok" -> Document(reg)
      [] io = "open_fails" -> file
      [] OTHER -> Unreadable

IoOutcomes == {"ok", "open_fails", "dump_fails"}

\* GET /user_admin
UserAdmin(c) ==
    /\ last' =
         IF ~LoggedIn(c) THEN Response("user_admin", c, 302, "", "", Plain)
         ELSE IF ~IsAdmin(c)
         THEN Response("user_admin", c, 302,
                       "Access denied. Admin privileges required.", "", Plain)
         ELSE Response("user_admin", c, 200, "", "", Plain)
    /\ UNCHANGED <<users, file, session, dbvars, inflight, reports>>

PrivilegesAreTheRole(role) == <<role>>

\* add_user: [role] if role in ['admin', 'supervisor'] else ['user']
PrivilegesOfRole(role) ==
    IF role \in {"admin", "supervisor"} THEN <<role>> ELSE <<"user">>

\* add_user: new_user = {...}
NewUser(form) ==
    [first_name |-> Capitalize(form.first_name), password |-> form.password,
     role |-> form.role, privileges |-> PrivilegesOfRole(form.role)]

\* POST /add_user
AddUser(c, form, io) ==
    LET username == Strip(form.username)
        new_user == NewUser(form)
    IN
    IF ~LoggedIn(c)
    THEN /\ last' = Response("add_user", c, 302, "", username, Plain)
         /\ UNCHANGED <<users, file, session, dbvars, inflight, reports>>
    ELSE IF ~IsAdmin(c)
    THEN /\ last' = Response("add_user", c, 302,
                             "Access denied. Admin privileges required.",
                             username, Plain)
         /\ UNCHANGED <<users, file, session, dbvars, inflight, reports>>
    ELSE IF UsernameTaken(users, username)
    THEN /\ last' = Response("add_user", c, 302, "Username already exists.",
                             username, Plain)
         /\ UNCHANGED <<users, file, session, dbvars, inflight, reports>>
    ELSE /\ users' = [u \in DOMAIN users \cup {username} |->
                         IF u = username THEN new_user ELSE users[u]]
         /\ file' = Persist(users', io)
         /\ last' = Response("add_user", c, 302,
                             IF io = "ok" THEN "User added successfully!"
                             ELSE "User added but could not save to file.",
                             username,
                             [Plain EXCEPT !.success = TRUE, !.storage = io])
         /\ UNCHANGED <<session, dbvars, inflight, reports>>

DelEveryEntry(reg, username) == NoUsers

\* del auth_manager.users[username]
DelEntry(reg, username) == [u \in DOMAIN reg \ {username} |-> reg[u]]

\* DELETE /delete_user/<username>
DeleteUser(c, username, io) ==
    IF ~LoggedIn(c)
    THEN /\ last' = Response("delete_user", c, 200, "Not authenticated",
                             username, Plain)
         /\ UNCHANGED <<users, file, session, dbvars, inflight, reports>>
    ELSE IF ~IsAdmin(c)
    THEN /\ last' = Response("delete_user", c, 200,
                             "Access denied. Admin privileges required.",
                             username, Plain)
         /\ UNCHANGED <<users, file, session, dbvars, inflight, reports>>
    ELSE IF IsSelf(c, username)
    THEN /\ last' = Response("delete_user", c, 200,
                             "Cannot delete your own account.", username, Plain)
         /\ UNCHANGED <<users, file, session, dbvars, inflight, reports>>
    ELSE IF username \notin DOMAIN users
    THEN /\ last' = Response("delete_user", c, 200, "User not found.",
                             username, Plain)
         /\ UNCHANGED <<users, file, session, dbvars, inflight, reports>>
    ELSE /\ users' = DelEntry(users, username)
         /\ file' = Persist(users', io)
         /\ last' = IF io = "ok"
                    THEN Response("delete_user", c, 200,
                                  "User deleted successfully.", username,
                                  [Plain EXCEPT !.success = TRUE,
                                                !.storage = io])
                    ELSE Response("delete_user", c, 200, "Error saving changes.",
                                  username, [Plain EXCEPT !.storage = io])
         /\ UNCHANGED <<session, dbvars, inflight, reports>>

\* ------------------------------------------------------------------------
\* add_user and delete_user as request threads: the server runs each request
\* in a thread of its own, the threads share auth_manager.users and
\* users.json, and the interpreter may switch threads between any two of the
\* steps below.  The document is taken to fit the file buffer, so that it is
\* written out when the file is closed.

Thread(c) == inflight.threads[c]

SetThread(c, t) == [inflight EXCEPT !.threads[c] = t]

\* add_user up to "if username in auth_manager.users".
AddUserBegin(c, form) ==
    LET username == Strip(form.username) IN
    /\ Thread(c).pc = "idle"
    /\ IF ~LoggedIn(c)
       THEN /\ last' = Response("add_user", c, 302, "", username, Plain)
            /\ UNCHANGED inflight
       ELSE IF ~IsAdmin(c)
       THEN /\ last' = Response("add_user", c, 302,
                                "Access denied. Admin privileges required.",
                                username, Plain)
            /\ UNCHANGED inflight
       ELSE IF UsernameTaken(users, username)
       THEN /\ last' = Response("add_user", c, 302, "Username already exists.",
                                username, Plain)
            /\ UNCHANGED inflight
       ELSE /\ inflight' = SetThread(c, [Idle EXCEPT !.pc = "checked",
                                                     !.op = "add",
                                                     !.form = form])
            /\ UNCHANGED last
    /\ UNCHANGED <<users, file, session, dbvars, reports>>

\* delete_user up to "if username not in auth_manager.users".
DeleteUserBegin(c, username) ==
    /\ Thread(c).pc = "idle"
    /\ IF ~LoggedIn(c)
       THEN /\ last' = Response("delete_user", c, 200, "Not authenticated",
                                username, Plain)
            /\ UNCHANGED inflight
       ELSE IF ~IsAdmin(c)
       THEN /\ last' = Response("delete_user", c, 200,
                                "Access denied. Admin privileges required.",
                                username, Plain)
            /\ UNCHANGED inflight
       ELSE IF IsSelf(c, username)
       THEN /\ last' = Response("delete_user", c, 200,
                                "Cannot delete your own account.", username,
                                Plain)
            /\ UNCHANGED inflight
       ELSE IF username \notin DOMAIN users
       THEN /\ last' = Response("delete_user", c, 200, "User not found.",
                                username, Plain)
            /\ UNCHANGED inflight
       ELSE /\ inflight' = SetThread(c, [Idle EXCEPT !.pc = "checked",
                                                     !.op = "delete",
                                                     !.form.username = username])
            /\ UNCHANGED last
    /\ UNCHANGED <<users, file, session, dbvars, reports>>

\* auth_manager.users[username] = new_user, or user_info = ...[username] and
\* del auth_manager.users[username]; the latter raises KeyError when another
\* thread deleted the entry since the check.
Store(c) ==
    LET t == Thread(c)
        username == Strip(t.form.username)
    IN
    /\ t.pc = "checked"
    /\ IF t.op = "add"
       THEN /\ users' = [u \in DOMAIN users \cup {username} |->
                            IF u = username THEN NewUser(t.form) ELSE users[u]]
            /\ inflight' = SetThread(c, [t EXCEPT !.pc = "stored"])
            /\ UNCHANGED last
       ELSE IF t.form.username \in DOMAIN users
       THEN /\ users' = DelEntry(users, t.form.username)
            /\ inflight' = SetThread(c, [t EXCEPT !.pc = "stored"])
            /\ UNCHANGED last
       ELSE /\ inflight' = SetThread(c, [t EXCEPT !.pc = "done",
                                                  !.message = "Error deleting user."])
            /\ last' = Response("delete_user", c, 200, "Error deleting user.",
                                t.form.username, Plain)
            /\ UNCHANGED users
    /\ UNCHANGED <<file, session, dbvars, reports>>

\* open(users_file, 'w'): the document is cut to nothing.
Open(c) ==
    /\ Thread(c).pc = "stored"
    /\ file' = Unreadable
    /\ inflight' = [SetThread(c, [Thread(c) EXCEPT !.pc = "opened"])
                       EXCEPT !.empty = TRUE]
    /\ UNCHANGED <<users, session, dbvars, last, reports>>

\* json.dump starts to go through auth_manager.users.
DumpBegin(c) ==
    /\ Thread(c).pc = "opened"
    /\ inflight' = SetThread(c, [Thread(c) EXCEPT !.pc = "dumping",
                                                  !.content = users])
    /\ UNCHANGED <<users, file, session, dbvars, last, reports>>

\* json.dump has gone through the whole dict: the buffer holds the registry
\* as it was meanwhile (a change of the dict after the last entry was read
\* goes unnoticed).
DumpEnd(c) ==
    /\ Thread(c).pc = "dumping"
    /\ inflight' = SetThread(c, [Thread(c) EXCEPT !.pc = "dumped"])
    /\ UNCHANGED <<users, file, session, dbvars, last, reports>>

\* json.dump finds the dict changed in size while it goes through it:
\* RuntimeError, the with block writes out the started text and the request
\* takes its except branch.  Over a document written meanwhile the started
\* text changes nothing where both begin alike.
DumpRaises(c) ==
    LET t == Thread(c)
        message == IF t.op = "add"
                   THEN "User added but could not save to file."
                   ELSE "Error saving changes."
    IN
    /\ t.pc = "dumping"
    /\ DOMAIN users # DOMAIN t.content
    /\ file' \in (IF inflight.empty THEN {Unreadable} ELSE {file, Unreadable})
    /\ inflight' = [SetThread(c, [t EXCEPT !.pc = "done", !.message = message])
                       EXCEPT !.empty = FALSE]
    /\ last' = Response(IF t.op = "add" THEN "add_user" ELSE "delete_user", c,
                        IF t.op = "add" THEN 302 ELSE 200, message,
                        Strip(t.form.username),
                        [Plain EXCEPT !.success = (t.op = "add"),
                                      !.storage = "dump_fails"])
    /\ UNCHANGED <<users, session, dbvars, reports>>

\* d is s without some of its entries: its text is the shorter one.
IsShorter(d, s) ==
    /\ DOMAIN d \subseteq DOMAIN s /\ DOMAIN d # DOMAIN s
    /\ \A u \in DOMAIN d : d[u] = s[u]

\* Writing the text of registry s from the start of users.json: an empty
\* file becomes that text; a longer text there keeps its tail and no longer
\* parses; a shorter one is covered; of texts whose lengths the model does
\* not tell apart either may happen.
Overlay(s) ==
    IF inflight.empty \/ file = Document(s) THEN {Document(s)}
    ELSE IF file.readable /\ IsShorter(s, file.doc) THEN {Unreadable}
    ELSE IF file.readable /\ IsShorter(file.doc, s) THEN {Document(s)}
    ELSE {Document(s), Unreadable}

RegistryAtClose(c) == users

\* What the file object holds when the with block closes it.
BufferAtClose(c) == Thread(c).content

\* The with block ends: the buffer is written out and the request answers.
Close(c) ==
    LET t == Thread(c)
        message == IF t.op = "add" THEN "User added successfully!"
                   ELSE "User deleted successfully."
    IN
    /\ t.pc = "dumped"
    /\ file' \in Overlay(BufferAtClose(c))
    /\ inflight' = [SetThread(c, [t EXCEPT !.pc = "done", !.message = message])
                       EXCEPT !.empty = FALSE, !.writer = c]
    /\ last' = Response(IF t.op = "add" THEN "add_user" ELSE "delete_user", c,
                        IF t.op = "add" THEN 302 ELSE 200, message,
                        Strip(t.form.username),
                        [Plain EXCEPT !.success = TRUE, !.storage = "ok"])
    /\ UNCHANGED <<users, session, dbvars, reports>>

\* ------------------------------------------------------------------------
\* Test Registry routes

\* GETDATE() moves on.
Tick ==
    /\ now < MaxClock
    /\ now' = now + 1
    /\ UNCHANGED <<users, file, session, machines, devices, tests, nextId, last,
                   inflight, reports>>

\* The sort keys of history: a's key is strictly ahead of b's.
KeyBefore(sort_by, a, b) ==
    CASE sort_by = "age" -> a.days_since_test > b.days_since_test
      [] sort_by = "machine" -> NameLess(a.machine_name, b.machine_name)
      [] OTHER -> NameLess(a.device_name, b.device_name)

\* sorted(tests, key=...): a stable sort.
RECURSIVE StableSort(_, _)
StableSort(seq, sort_by) ==
    IF seq = <<>> THEN <<>>
    ELSE LET n == Len(seq)
             x == seq[n]
             done == StableSort(SubSeq(seq, 1, n - 1), sort_by)
             k == Cardinality({i \in 1..Len(done) :
                                 ~KeyBefore(sort_by, x, done[i])})
         IN SubSeq(done, 1, k) \o <<x>> \o SubSeq(done, k + 1, Len(done))

SortTestsKeepsOrder(rows, sort_by) == rows

SortTestsAlwaysByAge(rows, sort_by) == StableSort(rows, "age")

\* history: the re-sort chosen by the sort parameter.
SortTests(rows, sort_by) ==
    IF sort_by \in {"age", "machine", "device"}
    THEN StableSort(rows, sort_by)
    ELSE rows

\* GET /
Index(c, db) ==
    /\ IF ~LoggedIn(c)
       THEN last' = Response("index", c, 302, "", "", Plain)
       ELSE IF get_connection_raises(db)
       THEN last' = Response("index", c, 500, "", "",
                             [Plain EXCEPT !.db = {"get_machines"},
                                           !.storage = db, !.raised = TRUE])
       ELSE \E ms \in get_machines(db) :
               last' = Response("index", c, 200, "", "",
                                [Plain EXCEPT !.db = {"get_machines"},
                                              !.storage = db, !.body = ms])
    /\ UNCHANGED <<users, file, session, dbvars, inflight, reports>>

\* GET /api/devices/<machine_id>
GetDevices(c, machine_id, db) ==
    /\ IF ~LoggedIn(c)
       THEN last' = Response("get_devices", c, 401, "Not authenticated", "",
                             [Plain EXCEPT !.id = machine_id])
       ELSE IF get_connection_raises(db)
       THEN last' = Response("get_devices", c, 500, "", "",
                             [Plain EXCEPT !.db = {"get_safety_devices"},
                                           !.storage = db, !.id = machine_id,
                                           !.raised = TRUE])
       ELSE \E ds \in get_safety_devices(machine_id, db) :
               last' = Response("get_devices", c, 200, "", "",
                                [Plain EXCEPT !.db = {"get_safety_devices"},
                                              !.storage = db,
                                              !.id = machine_id, !.body = ds])
    /\ UNCHANGED <<users, file, session, dbvars, inflight, reports>>

\* POST /test; data.complete is false when a required key is missing from
\* the JSON body.
RecordTest(c, data, db) ==
    /\ Cardinality(tests) < MaxTests
    /\ IF ~LoggedIn(c)
       THEN /\ last' = Response("record_test", c, 401, "Not authenticated", "",
                                Plain)
            /\ UNCHANGED <<tests, nextId>>
       ELSE IF ~data.complete
       THEN /\ last' = Response("record_test", c, 500, "KeyError", "", Plain)
            /\ UNCHANGED <<tests, nextId>>
       ELSE LET username == session[c].username
                r == record_test_result(data.machine_id, data.device_id, db)
            IN /\ tests' = record_test_rows(data.machine_id, data.device_id,
                                            username, data.test_result,
                                            data.notes, db)
               /\ nextId' = IF r = "true" THEN nextId + 1 ELSE nextId
               /\ last' =
                    Response("record_test", c, IF r = "true" THEN 200 ELSE 500,
                             CASE r = "true" -> "Test recorded successfully"
                               [] r = "false" -> "Failed to record test"
                               [] OTHER -> "connection error",
                             "",
                             [Plain EXCEPT !.db = {"record_test"},
                                           !.storage = db,
                                           !.success = (r = "true"),
                                           !.id = IF r = "true" THEN nextId ELSE 0,
                                           !.args = [machine_id |-> data.machine_id,
                                                     device_id |-> data.device_id,
                                                     username |-> username,
                                                     test_result |-> data.test_result,
                                                     notes |-> data.notes]])
    /\ UNCHANGED <<users, file, session, machines, devices, now, inflight,
                   reports>>

\* GET /history
History(c, q, db1, db2) ==
    /\ IF ~LoggedIn(c)
       THEN last' = Response("history", c, 302, "", "", Plain)
       ELSE IF get_connection_raises(db1)
       THEN last' = Response("history", c, 500, "", "",
                             [Plain EXCEPT !.db = {"get_device_tests"},
                                           !.storage = db1, !.query = q,
                                           !.raised = TRUE])
       ELSE IF get_connection_raises(db2)
       THEN last' = Response("history", c, 500, "", "",
                             [Plain EXCEPT !.db = {"get_device_tests",
                                                   "get_machines"},
                                           !.storage = db1, !.query = q,
                                           !.raised = TRUE])
       ELSE \E rows \in get_device_tests(q.search, q.machine, q.user, db1) :
               last' = Response("history", c, 200, "", "",
                                [Plain EXCEPT !.db = {"get_device_tests",
                                                      "get_machines"},
                                              !.storage = db1, !.query = q,
                                              !.rows = rows,
                                              !.body = SortTests(rows, q.sort)])
    /\ UNCHANGED <<users, file, session, dbvars, inflight, reports>>

\* GET /debug
Debug(c) ==
    /\ last' = IF ~LoggedIn(c)
               THEN Response("debug", c, 302, "", "", Plain)
               ELSE Response("debug", c, 200, "", "", Plain)
    /\ UNCHANGED <<users, file, session, dbvars, inflight, reports>>

\* ------------------------------------------------------------------------
\* Test Registry methods called directly

\* db.record_test(machine_id, device_id, username, test_result, notes)
CallRecordTest(machine_id, device_id, username, test_result, notes, db) ==
    LET r == record_test_result(machine_id, device_id, db) IN
    /\ Cardinality(tests) < MaxTests
    /\ tests' = record_test_rows(machine_id, device_id, username, test_result,
                                 notes, db)
    /\ nextId' = IF r = "true" THEN nextId + 1 ELSE nextId
    /\ last' = MethodCall("db.record_test",
                          [Plain EXCEPT !.db = {"record_test"},
                                        !.storage = db,
                                        !.success = (r = "true"),
                                        !.raised = (r = "raise"),
                                        !.id = IF r = "true" THEN nextId ELSE 0,
                                        !.args = [machine_id |-> machine_id,
                                                  device_id |-> device_id,
                                                  username |-> username,
                                                  test_result |-> test_result,
                                                  notes |-> notes]])
    /\ UNCHANGED <<users, file, session, machines, devices, now, inflight,
                   reports>>

\* db.get_device_tests(search_query, machine_filter, user_filter)
CallGetDeviceTests(q, db) ==
    /\ IF get_connection_raises(db)
       THEN last' = MethodCall("db.get_device_tests",
                               [Plain EXCEPT !.db = {"get_device_tests"},
                                             !.storage = db, !.query = q,
                                             !.raised = TRUE])
       ELSE \E rows \in get_device_tests(q.search, q.machine, q.user, db) :
               last' = MethodCall("db.get_device_tests",
                                  [Plain EXCEPT !.db = {"get_device_tests"},
                                                !.storage = db,
                                                !.query = q, !.success = TRUE,
                                                !.body = rows])
    /\ UNCHANGED <<users, file, session, dbvars, inflight, reports>>

\* db.get_machines()
CallGetMachines(db) ==
    /\ IF get_connection_raises(db)
       THEN last' = MethodCall("db.get_machines",
                               [Plain EXCEPT !.db = {"get_machines"},
                                             !.storage = db, !.raised = TRUE])
       ELSE \E ms \in get_machines(db) :
               last' = MethodCall("db.get_machines",
                                  [Plain EXCEPT !.db = {"get_machines"},
                                                !.storage = db, !.body = ms])
    /\ UNCHANGED <<users, file, session, dbvars, inflight, reports>>

\* db.get_safety_devices(machine_id)
CallGetSafetyDevices(machine_id, db) ==
    /\ IF get_connection_raises(db)
       THEN last' = MethodCall("db.get_safety_devices",
                               [Plain EXCEPT !.db = {"get_safety_devices"},
                                             !.storage = db, !.id = machine_id,
                                             !.raised = TRUE])
       ELSE \E ds \in get_safety_devices(machine_id, db) :
               last' = MethodCall("db.get_safety_devices",
                                  [Plain EXCEPT !.db = {"get_safety_devices"},
                                                !.storage = db,
                                                !.id = machine_id, !.body = ds])
    /\ UNCHANGED <<users, file, session, dbvars, inflight, reports>>

\* db.insert_sample_data(), as create_app runs it: every statement is
\* guarded by IF NOT EXISTS and committed on its own (autocommit), so a
\* statement that fails leaves the k statements before it in effect.
CallInsertSampleData(db) ==
    /\ IF get_connection_raises(db)
       THEN /\ last' = MethodCall("db.insert_sample_data",
                                  [Plain EXCEPT !.db = {"insert_sample_data"},
                                                !.storage = db, !.raised = TRUE])
            /\ UNCHANGED <<machines, devices>>
       ELSE IF db = "query_fails"
       THEN \E k \in 0..(Len(SampleMachines) + Len(SampleDevices) - 1) :
               LET km == IF k < Len(SampleMachines)
                         THEN k ELSE Len(SampleMachines)
               IN
               /\ machines' = InsertMachinesTo(machines, 1, km)
               /\ devices' = IF k < Len(SampleMachines) THEN devices
                             ELSE InsertDevicesTo(machines', devices, 1,
                                                  k - Len(SampleMachines))
               /\ last' = MethodCall("db.insert_sample_data",
                                     [Plain EXCEPT
                                        !.db = {"insert_sample_data"},
                                        !.storage = db])
       ELSE /\ machines' = InsertMachines(machines, 1)
            /\ devices' = InsertDevices(machines', devices, 1)
            /\ last' = MethodCall("db.insert_sample_data",
                                  [Plain EXCEPT !.db = {"insert_sample_data"},
                                                !.storage = db,
                                                !.success = TRUE])
    /\ UNCHANGED <<users, file, session, tests, nextId, now, inflight,
                   reports>>

\* ------------------------------------------------------------------------
\* The mock reports system

\* any(priv in ['supervisor', 'admin'] for priv in user_privileges)
CanEditReports(c) ==
    \/ HasPriv(session[c].privileges, "supervisor")
    \/ HasPriv(session[c].privileges, "admin")

\* datetime.fromisoformat(incident_date.replace('T', ' ')) raises ValueError
\* on a text that is no ISO date; an empty field is not parsed.
DateParses(incident_date) == incident_date \in {"", "2023-05-01T10:00"}

\* POST /save_report.  form.report_id is 0 when the form has no report_id.
\* Creating a report reads _report_id_counter as a module global, which is
\* bound nowhere: NameError, caught by the handler's except branch.
SaveReport(c, form) ==
    LET report_data == [id |-> 0, title |-> form.title,
                        incident_date |-> form.incident_date,
                        modified_by |-> session[c].username,
                        created_by |-> ""]
        request == [Plain EXCEPT !.id = form.report_id, !.body = <<form>>]
    IN
    /\ IF ~LoggedIn(c)
       THEN /\ last' = Response("save_report", c, 302, "", "", request)
            /\ UNCHANGED reports
       ELSE IF ~CanEditReports(c)
       THEN /\ last' = Response("save_report", c, 302,
                                "Access denied. Only supervisors and admins can edit reports.",
                                "", request)
            /\ UNCHANGED reports
       ELSE IF ~DateParses(form.incident_date)
       THEN /\ last' = Response("save_report", c, 302,
                                "Error saving report. Please try again.", "",
                                request)
            /\ UNCHANGED reports
       ELSE IF form.report_id # 0
       THEN /\ reports' =
                 [reports EXCEPT !.mock_reports =
                    [i \in DOMAIN reports.mock_reports |->
                       LET report == reports.mock_reports[i] IN
                       IF /\ report.id = form.report_id
                          /\ \A j \in 1..(i - 1) :
                                reports.mock_reports[j].id # form.report_id
                       THEN [report_data EXCEPT !.id = form.report_id,
                                                !.created_by = report.created_by]
                       ELSE report]]
            /\ last' = Response("save_report", c, 302,
                                "Report updated successfully!", "",
                                [request EXCEPT !.success = TRUE])
       ELSE IF ~reports.global_counter.bound
       THEN /\ last' = Response("save_report", c, 302,
                                "Error saving report. Please try again.", "",
                                [request EXCEPT !.raised = TRUE])
            /\ UNCHANGED reports
       ELSE /\ reports' =
                 [reports EXCEPT
                    !.mock_reports =
                       Append(@, [report_data EXCEPT
                                    !.id = reports.global_counter.value,
                                    !.created_by = session[c].username]),
                    !.global_counter.value = @ + 1]
            /\ last' = Response("save_report", c, 302,
                                "Report created successfully!", "",
                                [request EXCEPT !.success = TRUE])
    /\ UNCHANGED <<users, file, session, dbvars, inflight>>

\* ------------------------------------------------------------------------
\* The credential store under its user-administration routes.

RawNames == {"ckull", "mhiggins", " mhiggins "}
Passwords == {"mera7", "pw2"}
Roles == {"admin", ""}

\* The add-user forms submitted.
Forms == [first_name : {"ann"}, username : RawNames, password : {"pw2"},
          role : Roles]

Next ==
    \/ \E c \in Clients, u \in RawNames, p \in Passwords : Login(c, u, p)
    \/ \E c \in Clients : LoginForm(c)
    \/ \E c \in Clients : Logout(c)
    \/ \E c \in Clients : UserAdmin(c)
    \/ \E c \in Clients, f \in Forms, io \in IoOutcomes : AddUser(c, f, io)
    \/ \E c \in Clients, u \in RawNames, io \in IoOutcomes : DeleteUser(c, u, io)

Spec == Init /\ [][Next]_vars

\* ------------------------------------------------------------------------
\* The session-gated Test Registry routes, with logins and user deletion,
\* within one clock tick.

Names == {"ckull", "mhiggins"}

\* JSON bodies posted to /test: a device on its machine, a device id that
\* does not exist, and a body without test_result.
TestData ==
    {[complete |-> TRUE, machine_id |-> 1, device_id |-> 1,
      test_result |-> "pass", notes |-> ""],
     [complete |-> TRUE, machine_id |-> 1, device_id |-> 9,
      test_result |-> "pass", notes |-> ""],
     [complete |-> FALSE, machine_id |-> 1, device_id |-> 1,
      test_result |-> "", notes |-> ""]}

\* Outcomes of the two storage calls of /history.
HistoryDb == {<<"ok", "ok">>, <<"query_fails", "ok">>,
              <<"connect_fails", "ok">>, <<"ok", "connect_fails">>}

WebQueries ==
    {[search |-> <<>>, machine |-> <<>>, user |-> "", sort |-> "date"],
     [search |-> <<"E">>, machine |-> Ma, user |-> "ckull", sort |-> "age"]}

NextWeb ==
    \/ \E c \in Clients, u \in Names, p \in Passwords : Login(c, u, p)
    \/ \E c \in Clients : Logout(c)
    \/ \E c \in Clients, u \in Names : DeleteUser(c, u, "ok")
    \/ \E c \in Clients, db \in DbOutcomes : Index(c, db)
    \/ \E c \in Clients, m \in {1, 2}, db \in DbOutcomes : GetDevices(c, m, db)
    \/ \E c \in Clients, d \in TestData, db \in DbOutcomes : RecordTest(c, d, db)
    \/ \E c \in Clients, q \in WebQueries, db \in HistoryDb :
          History(c, q, db[1], db[2])
    \/ \E c \in Clients : Debug(c)

SpecWeb == Init /\ [][NextWeb]_vars

\* ------------------------------------------------------------------------
\* The Test Registry's record and query methods on their own.

\* (machine_id, device_id) pairs recorded: a device on its own machine, for
\* each machine, and a machine that does not exist.
IdPairs == {<<1, 1>>, <<2, 3>>, <<9, 1>>}

Query(search, machine, user) ==
    [search |-> search, machine |-> machine, user |-> user, sort |-> "date"]

\* Searches alone (a letter, a two-letter name, the LIKE wild cards), each
\* filter alone, and the filters combined.
Queries ==
    {Query(<<>>, <<>>, ""), Query(<<"E">>, <<>>, ""), Query(<<"m">>, <<>>, ""),
     Query(<<"E", "1">>, <<>>, ""), Query(<<"_">>, <<>>, ""),
     Query(<<"%">>, <<>>, ""),
     Query(<<>>, Ma, ""), Query(<<>>, <<>>, "ckull"),
     Query(<<"E">>, Ma, ""), Query(<<"M">>, <<>>, "ckull"),
     Query(<<>>, Ma, "ckull"), Query(<<"M">>, Ma, "ckull")}

\* The registry once the application is up, its user document readable.
InitDb == Init /\ file.readable

NextDb ==
    \/ \E ids \in IdPairs, u \in Names, db \in DbOutcomes :
          CallRecordTest(ids[1], ids[2], u, "pass", "", db)
    \/ \E q \in Queries, db \in DbOutcomes : CallGetDeviceTests(q, db)
    \/ Tick

SpecDb == InitDb /\ [][NextDb]_vars

\* ------------------------------------------------------------------------
\* An admin adding and deleting accounts of every role.

AllRoles == {"admin", "supervisor", "user", "operator", ""}

NewNames == {"mhiggins", "jdoe"}

RoleForms == [first_name : {"ann"}, username : NewNames, password : {"pw2"},
              role : AllRoles]

NextRoles ==
    \/ Login("c1", "ckull", "mera7")
    \/ \E f \in RoleForms : AddUser("c1", f, "ok")
    \/ \E u \in NewNames : DeleteUser("c1", u, "ok")

SpecRoles == InitDb /\ [][NextRoles]_vars

\* ------------------------------------------------------------------------
\* An admin adding and deleting accounts while writes of the user document
\* succeed or fail.

PersistForms == [first_name : {"ann"}, username : NewNames, password : {"pw2"},
                 role : {""}]

NextPersist ==
    \/ Login("c1", "ckull", "mera7")
    \/ \E f \in PersistForms, io \in IoOutcomes : AddUser("c1", f, io)
    \/ \E u \in NewNames, io \in IoOutcomes : DeleteUser("c1", u, io)

SpecPersist == InitDb /\ [][NextPersist]_vars

\* ------------------------------------------------------------------------
\* Every operation of the application around the stored test records: an
\* admin logging in and out, adding and deleting accounts, tests recorded
\* under an account's name, the queries, and the seeding run again.

NextLifecycle ==
    \/ Login("c1", "ckull", "mera7")
    \/ Logout("c1")
    \/ \E f \in PersistForms : AddUser("c1", f, "ok")
    \/ \E u \in NewNames : DeleteUser("c1", u, "ok")
    \/ \E ids \in {<<1, 1>>, <<2, 3>>} :
          CallRecordTest(ids[1], ids[2], "mhiggins", "pass", "", "ok")
    \/ CallGetDeviceTests(Query(<<>>, <<>>, ""), "ok")
    \/ CallGetMachines("ok")
    \/ CallGetSafetyDevices(1, "ok")
    \/ \E db \in {"ok", "connect_fails"} : CallInsertSampleData(db)

SpecLifecycle == InitDb /\ [][NextLifecycle]_vars

\* ------------------------------------------------------------------------
\* Two admin sessions, each sending one add_user or delete_user, the two
\* requests running as threads.

NextRace ==
    \/ \E c \in Clients : Login(c, "ckull", "mera7")
    \/ \E c \in Clients, f \in PersistForms : AddUserBegin(c, f)
    \/ \E c \in Clients, u \in NewNames : DeleteUserBegin(c, u)
    \/ \E c \in Clients : Store(c)
    \/ \E c \in Clients : Open(c)
    \/ \E c \in Clients : DumpBegin(c)
    \/ \E c \in Clients : DumpEnd(c)
    \/ \E c \in Clients : DumpRaises(c)
    \/ \E c \in Clients : Close(c)

SpecRace == InitDb /\ [][NextRace]_vars

\* ------------------------------------------------------------------------
\* insert_sample_data run again and again, working or failing, on tables in
\* different starting states.

Mc == <<"m">>

\* machines and safety_devices before the first run: both empty (a new
\* database); seeded; Machine B and its Safety Mat brought in beforehand
\* under the ids 1 and 1; a machine of another name brought in with a device
\* that is named like one of Machine A's.
StartTables ==
    {<<{}, {}>>,
     <<InsertMachines({}, 1), InsertDevices(InsertMachines({}, 1), {}, 1)>>,
     <<{[machine_id |-> 1, machine_name |-> Mb, location |-> "Assembly Line 1"]},
       {[device_id |-> 1, machine_id |-> 1, device_name |-> Sm,
         device_type |-> "Pressure Mat"]}>>,
     <<{[machine_id |-> 1, machine_name |-> Mc, location |-> "Yard"]},
       {[device_id |-> 1, machine_id |-> 1, device_name |-> E1,
         device_type |-> "E-Stop"]}>>}

InitSeed ==
    /\ file = Document(SeedUsers)
    /\ users = load_users(file)
    /\ session = [c \in Clients |-> NoSession]
    /\ \E t \in StartTables : machines = t[1] /\ devices = t[2]
    /\ tests = {}
    /\ nextId = 1
    /\ now = 0
    /\ last = MethodCall("create_app", Plain)
    /\ inflight = NoneInFlight
    /\ reports = NoReports

NextSeed ==
    \/ \E db \in DbOutcomes : CallInsertSampleData(db)
    \/ \E db \in DbOutcomes : CallGetMachines(db)
    \/ \E m \in {1, 2, 3} : CallGetSafetyDevices(m, "ok")

SpecSeed == InitSeed /\ [][NextSeed]_vars

\* ------------------------------------------------------------------------
\* Reports saved by an admin session and by a plain user's session.

ReportForms == [report_id : {0, 1}, title : {"spill", "jam"},
                incident_date : {"", "2023-05-01T10:00", "yesterday"}]

NextReports ==
    \/ \E c \in Clients, u \in Names, p \in Passwords : Login(c, u, p)
    \/ \E c \in Clients : Logout(c)
    \/ \E c \in Clients, f \in ReportForms : SaveReport(c, f)

SpecReports == InitDb /\ [][NextReports]_vars

\* ------------------------------------------------------------------------
\* The four Test Registry methods called with arbitrary ids, the storage
\* backend working or failing.

\* Machine ids asked for: the two machines and one that does not exist.
MachineIds == {1, 2, 9}

\* (machine_id, device_id) arguments: a device on its machine, a device of
\* another machine, a machine and a device that do not exist.
AnyIdPairs == {<<1, 1>>, <<1, 3>>, <<9, 1>>, <<1, 9>>}

NextRegistry ==
    \/ \E db \in DbOutcomes : CallGetMachines(db)
    \/ \E m \in MachineIds, db \in DbOutcomes : CallGetSafetyDevices(m, db)
    \/ \E ids \in AnyIdPairs, db \in DbOutcomes :
          CallRecordTest(ids[1], ids[2], "ckull", "pass", "", db)
    \/ \E db \in DbOutcomes :
          CallGetDeviceTests(Query(<<>>, <<>>, ""), db)

SpecRegistry == InitDb /\ [][NextRegistry]_vars

\* ------------------------------------------------------------------------
\* The history page of one logged-in client, over records of both machines
\* made on different days.

\* JSON bodies posted to /test: a device of each machine.
HistoryData ==
    {[complete |-> TRUE, machine_id |-> 1, device_id |-> 1,
      test_result |-> "pass", notes |-> ""],
     [complete |-> TRUE, machine_id |-> 2, device_id |-> 3,
      test_result |-> "pass", notes |-> ""]}

\* The sort parameters of /history: the default, the three keys, and a value
\* that is none of them.
SortKeys == {"date", "age", "machine", "device", "name"}

HistoryQueries ==
    {[search |-> <<>>, machine |-> <<>>, user |-> "", sort |-> k] :
        k \in SortKeys}

NextHistory ==
    \/ Login("c1", "ckull", "mera7")
    \/ \E d \in HistoryData : RecordTest("c1", d, "ok")
    \/ \E q \in HistoryQueries : History("c1", q, "ok", "ok")
    \/ Tick

SpecHistory == InitDb /\ [][NextHistory]_vars

\* ------------------------------------------------------------------------
\* Claims about the credential store and the login route

\* C1: authenticate returns true iff the username is a key of the registry
\* and the stored password equals the supplied one; otherwise it returns
\* false, and in both cases the registry and its document are unchanged.
C1_AuthenticateIff ==
    [][last'.route = "login" =>
          /\ last'.auth <=> (/\ last'.target \in DOMAIN users
                             /\ users[last'.target].password = last'.password)
          /\ users' = users
          /\ file' = file]_vars

\* A login with a known username and a wrong password was answered.
C1_Witness ==
    /\ last.route = "login"
    /\ ~last.auth
    /\ last.target \in DOMAIN users
    /\ users[last.target].password # last.password

\* C2: add_user with a username that is a key of the registry changes neither
\* the registry nor its document, and an admin session is told that the
\* username already exists.
C2_DuplicateRejected ==
    [][(last'.route = "add_user" /\ last'.target \in DOMAIN users) =>
          /\ users' = users
          /\ file' = file
          /\ ~last'.success
          /\ (last'.hadSession /\ HasPriv(session[last'.client].privileges, "admin"))
                => last'.message = "Username already exists."]_vars

\* An admin submitted a taken username (after stripping) and was rejected,
\* while the document differs from the registry.
C2_Witness ==
    /\ last.route = "add_user"
    /\ last.message = "Username already exists."
    /\ last.target \in DOMAIN users
    /\ file # Document(users)

\* C3: delete_user of the session's own username is rejected whatever the
\* session's privileges and changes nothing; no delete removes the entry of
\* the user who issued it.
C3_NoSelfDelete ==
    [][(last'.route = "delete_user" /\ last'.hadSession) =>
          /\ (last'.target = last'.actor) =>
                (~last'.success /\ users' = users /\ file' = file)
          /\ (last'.actor \in DOMAIN users) => (last'.actor \in DOMAIN users')
          /\ (last'.actor \in DOMAIN users) =>
                (users'[last'.actor] = users[last'.actor])]_vars

\* An admin asked to delete their own account.
C3_Witness ==
    /\ last.route = "delete_user"
    /\ last.hadSession
    /\ last.target = last.actor
    /\ HasPriv(session[last.client].privileges, "admin")
    /\ last.message = "Cannot delete your own account."

\* C4: add_user or delete_user changes the registry only when the privilege
\* set get_user_privileges returns for the acting user at the time of the
\* request contains "admin".
C4_MutationNeedsCurrentAdmin ==
    [][(last'.route \in {"add_user", "delete_user"} /\ users' # users) =>
          HasPriv(IF last'.actor \in DOMAIN users
                  THEN users[last'.actor].privileges ELSE <<>>, "admin")]_vars

\* C7: POST /login starts a session for the submitted username with that
\* user's current privileges and redirects exactly when authenticate
\* succeeded; otherwise every session is as before and the form is rendered
\* again with status 200.
C7_LoginStartsSession ==
    [][last'.route = "login" =>
          LET c == last'.client IN
          /\ last'.auth =>
                /\ session'[c] = [active |-> TRUE, username |-> last'.target,
                                  privileges |-> users[last'.target].privileges]
                /\ last'.status = 302
          /\ ~last'.auth => (session'[c] = session[c] /\ last'.status = 200)
          /\ \A d \in Clients \ {c} : session'[d] = session[d]]_vars

\* A failed login on a client that already holds a session: the session is
\* still there.
C7_Witness ==
    /\ last.route = "login"
    /\ ~last.auth
    /\ last.status = 200
    /\ last.hadSession
    /\ session[last.client].active
    /\ session[last.client].username = last.actor

\* ------------------------------------------------------------------------
\* Claims about the session gate of the Test Registry routes

RegistryRoutes == {"index", "history", "debug", "get_devices", "record_test"}

\* C5: a request without a session is answered with a redirect (/, /history,
\* /debug) or 401 (/api/devices, /test), calls no Test Registry method,
\* inserts no test record and changes neither the registry nor any session.
C5_NoSessionNoRegistry ==
    [][(last'.route \in RegistryRoutes /\ ~last'.hadSession) =>
          /\ last'.status = IF last'.route \in {"index", "history", "debug"}
                            THEN 302 ELSE 401
          /\ last'.db = {}
          /\ last'.body = <<>>
          /\ UNCHANGED <<users, file, session, dbvars>>]_vars

\* POST /test without a session was answered 401 while test records exist
\* and another client is logged in.
C5_Witness ==
    /\ last.route = "record_test"
    /\ ~last.hadSession
    /\ last.status = 401
    /\ tests # {}
    /\ \E c \in Clients : session[c].active

\* C6: whenever a request is dispatched to a Test Registry method, the
\* session's username is a key of the Credential Store's registry.
C6_DispatchedUserRegistered ==
    (last.route \in RegistryRoutes /\ last.db # {}) =>
        last.actor \in DOMAIN users

\* ------------------------------------------------------------------------
\* Claims about recording and querying tests

Ids(rows) == {rows[i].record_id : i \in DOMAIN rows}

\* s occurs in str as a run of consecutive characters.
Contains(str, s) ==
    \E i \in 0..(Len(str) - Len(s)) : SubSeq(str, i + 1, i + Len(s)) = s

\* C8: a successful record_test followed by get_device_tests without filters
\* returns a sequence whose first element is the new record.
C8_NewRecordFirst ==
    [][(/\ last.route = "db.record_test" /\ last.success
        /\ last'.route = "db.get_device_tests" /\ last'.storage = "ok"
        /\ last'.query = Query(<<>>, <<>>, "")) =>
          (last'.body # <<>> /\ last'.body[1].record_id = last.id)]_vars

\* C9: with a search text and no other filter, get_device_tests returns
\* exactly the records whose device name or machine name contains the search
\* text as a substring.
C9_SearchIsSubstring ==
    (/\ last.route = "db.get_device_tests" /\ last.storage = "ok"
     /\ last.query.search # <<>>
     /\ last.query.machine = <<>> /\ last.query.user = "") =>
        Ids(last.body) =
          {r.record_id : r \in {x \in JoinedRows :
              \/ Contains(x.device_name, last.query.search)
              \/ Contains(x.machine_name, last.query.search)}}

\* C10: get_device_tests returns, once each, exactly the joined records that
\* satisfy every condition given by a non-empty argument: the search
\* condition (the LIKE match on device or machine name), machine name equal
\* to the machine filter, username equal to the user filter.  With all three
\* empty it returns every test record whose machine and device exist.
C10_FiltersCombineWithAnd ==
    (last.route = "db.get_device_tests" /\ last.storage = "ok") =>
        LET q == last.query
            pat == <<"%">> \o q.search \o <<"%">>
        IN /\ Ids(last.body) =
                {r.record_id : r \in {x \in JoinedRows :
                    /\ q.search # <<>> =>
                         (Like(x.device_name, pat) \/ Like(x.machine_name, pat))
                    /\ q.machine # <<>> => x.machine_name = q.machine
                    /\ q.user # "" => x.username = q.user}}
           /\ Cardinality(Ids(last.body)) = Len(last.body)
           /\ q = Query(<<>>, <<>>, "") =>
                Ids(last.body) =
                  {t.record_id : t \in {x \in tests :
                      /\ \E m \in machines : m.machine_id = x.machine_id
                      /\ \E d \in devices : d.device_id = x.device_id}}

\* A query with all three filters set returned one of two stored records,
\* both matching the search: one of the two is on another machine or by
\* another user.
C10_Witness ==
    /\ last.route = "db.get_device_tests"
    /\ last.storage = "ok"
    /\ last.query = Query(<<"M">>, Ma, "ckull")
    /\ Len(last.body) = 1
    /\ Cardinality(tests) = 2

\* ------------------------------------------------------------------------
\* Claims about the history page's re-sort

\* Two sequences hold the same elements, each as often.
IsPermutation(a, b) ==
    /\ Len(a) = Len(b)
    /\ \A x \in {a[i] : i \in DOMAIN a} \cup {b[i] : i \in DOMAIN b} :
          Cardinality({i \in DOMAIN a : a[i] = x})
             = Cardinality({i \in DOMAIN b : b[i] = x})

\* C11: the history page sorted by age shows non-increasing days_since_test,
\* sorted by machine non-decreasing machine names, and in both cases a
\* permutation of what get_device_tests returned.
C11_ResortOrdersAndPermutes ==
    (last.route = "history" /\ last.status = 200
       /\ last.query.sort \in {"age", "machine"}) =>
      /\ IsPermutation(last.body, last.rows)
      /\ last.query.sort = "age" =>
            \A i, j \in DOMAIN last.body :
               i < j => last.body[i].days_since_test
                           >= last.body[j].days_since_test
      /\ last.query.sort = "machine" =>
            \A i, j \in DOMAIN last.body :
               i < j => ~NameLess(last.body[j].machine_name,
                                  last.body[i].machine_name)

\* The page sorted by age over two records of different days, which the
\* query returned newest first.
C11_Witness ==
    /\ last.route = "history" /\ last.status = 200
    /\ last.query.sort = "age"
    /\ Len(last.body) = 2 /\ last.body # last.rows
    /\ last.body[1].days_since_test > last.body[2].days_since_test

\* C21: the history page requested without a sort parameter (the default,
\* date) or with one that is none of age, machine and device shows exactly
\* the sequence get_device_tests returned, which has non-increasing test
\* dates; requested with sort=device it shows non-decreasing device names.
C21_DefaultKeepsBaseOrder ==
    (last.route = "history" /\ last.status = 200) =>
      /\ last.query.sort \notin {"age", "machine", "device"} =>
            /\ last.body = last.rows
            /\ \A i, j \in DOMAIN last.body :
                  i < j => last.body[i].test_date >= last.body[j].test_date
      /\ last.query.sort = "device" =>
            \A i, j \in DOMAIN last.body :
               i < j => ~NameLess(last.body[j].device_name,
                                  last.body[i].device_name)

\* The page asked for with an unknown sort key shows two records made at
\* different times on different days, the newer one first.
C21_Witness ==
    /\ last.route = "history" /\ last.status = 200
    /\ last.query.sort = "name"
    /\ Len(last.body) = 2
    /\ last.body[1].test_date > last.body[2].test_date
    /\ last.body[1].days_since_test < last.body[2].days_since_test

\* ------------------------------------------------------------------------
\* Claims about the Test Registry's methods

\* C12: get_safety_devices(machine_id), the storage backend working, returns
\* one row for each device of that machine and no other row, in
\* non-decreasing device name order, and changes no table, nor the
\* credential store.
C12_DevicesOfMachine ==
    [][(last'.route = "db.get_safety_devices" /\ last'.storage = "ok") =>
          /\ Len(last'.body)
                = Cardinality({d \in devices : d.machine_id = last'.id})
          /\ \A d \in devices :
                d.machine_id = last'.id <=>
                   \E i \in DOMAIN last'.body :
                      last'.body[i] = [device_id |-> d.device_id,
                                       device_name |-> d.device_name,
                                       device_type |-> d.device_type]
          /\ \A i, j \in DOMAIN last'.body :
                i < j => ~NameLess(last'.body[j].device_name,
                                   last'.body[i].device_name)
          /\ UNCHANGED <<machines, devices, tests, nextId, users, file>>]_vars

\* The two devices of machine 2 were returned, while other machines have
\* devices too.
C12_Witness ==
    /\ last.route = "db.get_safety_devices" /\ last.storage = "ok"
    /\ last.id = 2
    /\ Len(last.body) = 2
    /\ \E d \in devices : d.machine_id # 2

\* C13: a call of get_machines, get_safety_devices, get_device_tests or
\* record_test that meets a storage failure, in acquiring the connection or
\* in running the query, raises nothing and returns the empty sequence, or
\* false for record_test.
C13_StorageFailuresCaught ==
    (/\ last.route \in {"db.get_machines", "db.get_safety_devices",
                        "db.get_device_tests", "db.record_test"}
     /\ last.storage \in {"connect_fails", "query_fails"}) =>
       /\ ~last.raised
       /\ last.body = <<>>
       /\ ~last.success

\* C14: record_test returns true only when exactly one record with its
\* arguments and an id no stored record has was added; when the insert is
\* attempted with a machine_id or device_id that no machine or device has,
\* it returns false and test_records is unchanged.
C14_TrueOnlyOnInsert ==
    [][last'.route = "db.record_test" =>
          /\ last'.success =>
                \E t \in tests' \ tests :
                   /\ tests' = tests \cup {t}
                   /\ t.machine_id = last'.args.machine_id
                   /\ t.device_id = last'.args.device_id
                   /\ t.username = last'.args.username
                   /\ t.test_result = last'.args.test_result
                   /\ t.notes = last'.args.notes
                   /\ \A o \in tests : o.record_id # t.record_id
          /\ (/\ last'.storage # "connect_fails"
              /\ \/ \A m \in machines : m.machine_id # last'.args.machine_id
                 \/ \A d \in devices : d.device_id # last'.args.device_id) =>
                (~last'.success /\ ~last'.raised /\ tests' = tests)]_vars

\* With a record stored, an insert naming a device that does not exist was
\* refused by a working backend.
C14_Witness ==
    /\ last.route = "db.record_test" /\ last.storage = "ok"
    /\ ~last.success
    /\ \A d \in devices : d.device_id # last.args.device_id
    /\ tests # {}

\* ------------------------------------------------------------------------
\* Claims about adding and deleting users

\* C15: the user that add_user creates has the privilege list <<"admin">>
\* when its role is "admin", <<"supervisor">> when it is "supervisor", and
\* <<"user">> for every other role; so it has one privilege, which is one of
\* admin, supervisor and user.
C15_PrivilegesFromRole ==
    [][(last'.route = "add_user" /\ last'.success) =>
          LET new_user == users'[last'.target] IN
          /\ last'.target \notin DOMAIN users
          /\ new_user.role = "admin" => new_user.privileges = <<"admin">>
          /\ new_user.role = "supervisor" =>
                new_user.privileges = <<"supervisor">>
          /\ new_user.role \notin {"admin", "supervisor"} =>
                new_user.privileges = <<"user">>
          /\ Len(new_user.privileges) = 1
          /\ new_user.privileges[1] \in {"admin", "supervisor", "user"}]_vars

\* A user with the empty role and a user with the supervisor role were
\* added.
C15_Witness ==
    /\ last.route = "add_user" /\ last.success
    /\ users[last.target].role = ""
    /\ \E u \in DOMAIN users : users[u].role = "supervisor"

\* The messages that report a failed write of the user document.
SaveWarnings == {"User added but could not save to file.",
                 "Error saving changes."}

\* C16 as stated: an add_user or delete_user that changes the registry while
\* the write of the document fails keeps the change and reports the failure,
\* and the document then differs from the registry; one whose write succeeds
\* leaves the document equal to the whole registry.
C16_FailedWriteDiverges ==
    [][(last'.route \in {"add_user", "delete_user"} /\ users' # users) =>
          /\ (last'.target \in DOMAIN users') <=> (last'.route = "add_user")
          /\ IF last'.storage # "ok"
             THEN /\ last'.message \in SaveWarnings
                  /\ file' # Document(users')
             ELSE file' = Document(users')]_vars

\* C16, amended: an add_user or delete_user that changes the registry while
\* the write of the document fails keeps the change and reports the failure,
\* and leaves the document as it was or unparsable, so that the document
\* differs from the registry whenever the two agreed before the operation;
\* one whose write succeeds leaves the document equal to the whole registry.
C16_FailedWriteKeepsChange ==
    [][(last'.route \in {"add_user", "delete_user"} /\ users' # users) =>
          /\ (last'.target \in DOMAIN users') <=> (last'.route = "add_user")
          /\ IF last'.storage # "ok"
             THEN /\ last'.message \in SaveWarnings
                  /\ file' \in {file, Unreadable}
                  /\ file = Document(users) => file' # Document(users')
             ELSE file' = Document(users')]_vars

\* A user was added in memory while the document could not be opened for
\* writing: the document is the older registry.
C16_Witness ==
    /\ last.route = "add_user" /\ last.storage = "open_fails"
    /\ last.target \in DOMAIN users
    /\ file.readable /\ file.doc # users

\* C17: delete_user from an admin session for a username that is not in the
\* registry is refused and changes neither the registry nor the document;
\* for a registered username other than the caller's it removes that entry
\* and no other, changes no other entry, and a write that succeeds leaves
\* the document equal to the whole remaining registry.
C17_DeleteRemovesOneEntry ==
    [][(/\ last'.route = "delete_user" /\ last'.hadSession
        /\ HasPriv(session[last'.client].privileges, "admin")) =>
          /\ last'.target \notin DOMAIN users =>
                /\ ~last'.success
                /\ users' = users /\ file' = file
          /\ (last'.target \in DOMAIN users /\ last'.target # last'.actor) =>
                /\ DOMAIN users' = DOMAIN users \ {last'.target}
                /\ \A u \in DOMAIN users' : users'[u] = users[u]
                /\ last'.storage = "ok" => file' = Document(users')]_vars

\* One of three registered users was deleted and the two others were
\* written to the document.
C17_Witness ==
    /\ last.route = "delete_user" /\ last.success
    /\ Cardinality(DOMAIN users) = 2
    /\ file = Document(users)

\* The messages that report a completed add or delete.
SuccessMessages == {"User added successfully!", "User deleted successfully."}

\* Both request threads have answered with success.
BothSucceeded ==
    \A c \in Clients : /\ Thread(c).pc = "done"
                       /\ Thread(c).message \in SuccessMessages

\* C18: nothing orders two concurrent add_user / delete_user requests: once
\* both have answered with success the registry in memory has the effect of
\* both (they name different users), while the document, where it parses, is the whole registry as the
\* request that wrote last had read it, which may lack the effect of the
\* other request.
C18_LastWriterWins ==
    BothSucceeded =>
       /\ \A c, o \in Clients :
             Strip(Thread(c).form.username) # Strip(Thread(o).form.username)
                => ((Strip(Thread(c).form.username) \in DOMAIN users)
                       <=> Thread(c).op = "add")
       /\ file.readable => file.doc = Thread(inflight.writer).content

\* Both requests answered with success, the document parses, and it still
\* holds the user that one of them deleted.
C18_Witness ==
    /\ BothSucceeded
    /\ file.readable
    /\ \E c \in Clients :
          /\ Thread(c).op = "delete"
          /\ Thread(c).form.username \notin DOMAIN users
          /\ Thread(c).form.username \in DOMAIN file.doc

\* ------------------------------------------------------------------------
\* Claims about the stored test records

\* C19: in every step of any operation each stored test record stays stored
\* with the same field values, and only record_test adds a record; this
\* holds as well once the user a record names has been deleted.
C19_RecordsOnlyAdded ==
    [][/\ \A t \in tests : t \in tests'
       /\ tests' # tests => last'.route \in {"db.record_test", "record_test"}
      ]_vars

\* The account a stored record names was just deleted.
C19_Witness ==
    /\ last.route = "delete_user" /\ last.success
    /\ \E t \in tests : t.username = last.target
    /\ last.target \notin DOMAIN users

\* C20: in every reachable state the device of every stored test record is
\* a device of that record's machine.
C20_DeviceOnRecordsMachine ==
    \A t \in tests :
       \E d \in devices : /\ d.device_id = t.device_id
                          /\ d.machine_id = t.machine_id

\* ------------------------------------------------------------------------
\* Claims about seeding

\* C22: a run of insert_sample_data adds no machine whose name another
\* machine has and no device whose (device name, machine id) pair another
\* device has, every device it adds is on an existing machine, and after a
\* run that went through, running it again, any number of times, changes
\* neither machines nor safety_devices.
C22_SeedingIdempotent ==
    [][last'.route = "db.insert_sample_data" =>
          /\ \A m \in machines' \ machines :
                \A x \in machines' :
                   x.machine_name = m.machine_name => x = m
          /\ \A d \in devices' \ devices :
                /\ \A y \in devices' :
                      (/\ y.device_name = d.device_name
                       /\ y.machine_id = d.machine_id) => y = d
                /\ \E m \in machines' : m.machine_id = d.machine_id
          /\ last'.success =>
                /\ InsertMachines(machines', 1) = machines'
                /\ InsertDevices(machines', devices', 1) = devices'
                /\ (last.route = "db.insert_sample_data" /\ last.success) =>
                      (machines' = machines /\ devices' = devices)]_vars

\* The sample data was added to tables that held a machine and a device of
\* their own.
C22_Witness ==
    /\ last.route = "db.insert_sample_data" /\ last.success
    /\ Cardinality(machines) = 3
    /\ Cardinality(devices) = 4

\* ------------------------------------------------------------------------
\* Claims about the mock reports system

\* C23: save_report from a session holding admin or supervisor, with no
\* report_id (and a date that parses), appends exactly one report to
\* _mock_reports, gives it the value the counter has (1 for the first
\* report, as create_app sets it) and raises the counter by one, so that
\* the ids in the list are pairwise distinct.
C23_SaveAppendsWithFreshId ==
    [][(/\ last'.route = "save_report" /\ last'.hadSession
        /\ CanEditReports(last'.client)
        /\ last'.id = 0
        /\ DateParses(last'.body[1].incident_date)) =>
          /\ Len(reports'.mock_reports) = Len(reports.mock_reports) + 1
          /\ \A i \in DOMAIN reports.mock_reports :
                reports'.mock_reports[i] = reports.mock_reports[i]
          /\ reports'.mock_reports[Len(reports'.mock_reports)].id
                = Len(reports.mock_reports) + 1
          /\ \A i, j \in DOMAIN reports'.mock_reports :
                i # j => reports'.mock_reports[i].id
                            # reports'.mock_reports[j].id]_vars

====
